---- MODULE Spec2Model ----
(***************************************************************************)
(* Model of the MindfulLiving RAG pipeline:                                *)
(*   - scripts/generate_all_responses.py   (generation batch job)          *)
(*   - scripts/quality_check_all.py        (quality annotation job)        *)
(*   - backend/functions/embeddings_service.py (embedding job, retriever)  *)
(*   - backend/functions/talk_to_me_function.py (request path)             *)
(* The document store, the embedding model and the LLM host are external:  *)
(* each call to them is a nondeterministic choice among its outcomes.      *)
(***************************************************************************)
EXTENDS Integers, Sequences, FiniteSets, TLC

VARIABLES
    life_situations,   \* id -> scenario document (life_situations/{id}) or NoDoc
    llm_response,      \* id -> generated-response record (llm_response/v1) or NoDoc
    gen,               \* generate_all_responses.main: position and locals
    gen_hist,          \* history of the generation job's effects (observer only)
    embeddings,        \* id -> embedding record (_embeddings/v1) or NoDoc
    emb,               \* embed_scenarios_batch: position and locals
    emb_hist,          \* history of the embedding job's effects (observer only)
    srch,              \* a call of search_similar_scenarios: arguments and result
    db_handle,         \* talk_to_me_function._db (None until constructed)
    model_handle,      \* talk_to_me_function._embedding_model
    handle_hist,       \* constructions of the two handles so far (observer only)
    req,               \* the talk_to_me invocation: position and locals
    talk_hist,         \* what the invocation has called so far (observer only)
    qc,                \* quality_check_all: position and locals
    qc_hist            \* history of the quality job's effects (observer only)

genVars == <<llm_response, gen, gen_hist>>
embVars == <<embeddings, emb, emb_hist>>
talkVars == <<db_handle, model_handle, handle_hist, req, talk_hist>>
qualVars == <<qc, qc_hist>>
vars == <<life_situations, genVars, embVars, srch, talkVars, qualVars>>

----------------------------------------------------------------------------
\* Bounds of the model

NumScenarios == 3      \* scenario documents that may exist
MaxRuns == 2           \* runs (starts and restarts) of a batch job

Ids == 1..NumScenarios

\* Python's None, and a document snapshot with exists == False
None == "<None>"
NoDoc == [exists |-> FALSE]

\* the scenario documents: read-only to this system.  keyInsights is the
\* number of insights of the document, or Malformed (a value that is no list
\* of strings)
Malformed == 0 - 1
ScenarioDoc(id, keyInsights) == [id |-> id, keyInsights |-> keyInsights]
DefaultInsights(id) ==
    CASE id % 3 = 1 -> 2
      [] id % 3 = 2 -> 0
      [] OTHER -> 1

\* the ids of the scenario documents, as db.collection('life_situations')
\* lists them
ScenarioIds(docs) == {id \in Ids : docs[id] # NoDoc}

\* the corpora: any subset of the scenarios exists
Corpora ==
    {[id \in Ids |-> IF id \in S THEN ScenarioDoc(id, DefaultInsights(id)) ELSE NoDoc] :
        S \in SUBSET Ids}

FullCorpus == [id \in Ids |-> ScenarioDoc(id, DefaultInsights(id))]

\* os.getenv("MODEL_NAME", "mistral")
MODEL_NAME == "mistral"

\* the ids of a set in document-name order, as a sequence
RECURSIVE SeqOfSet(_)
SeqOfSet(S) ==
    IF S = {} THEN <<>>
    ELSE LET m == CHOOSE x \in S : \A y \in S : x <= y
         IN <<m>> \o SeqOfSet(S \ {m})

----------------------------------------------------------------------------
\* The LLM host: outcomes of POST /api/generate followed by raise_for_status
\* and response.json()["response"].strip()

LLMOutcomes ==
    {"completion", "empty_completion", "timeout", "connection_error",
     "http_error", "malformed_body"}

\* generate_response: the stripped completion, or None on any exception
generate_response(outcome) ==
    CASE outcome = "completion" -> "text"
      [] outcome = "empty_completion" -> ""
      [] OTHER -> None

\* Python truthiness of an Optional[str]
Truthy(s) == s # None /\ s # ""

----------------------------------------------------------------------------
\* scripts/generate_all_responses.py: main

GenIdle ==
    [pc |-> "idle", docs |-> <<>>, i |-> 1, generated |-> 0, failed |-> 0,
     response |-> None, runs |-> 0]

GenHistInit ==
    [writes |-> [id \in Ids |-> 0], overwritten |-> {}, llm_on_existing |-> {},
     llm_calls |-> [id \in Ids |-> 0]]

\* the record main stores at life_situations/{id}/llm_response/v1
GenRecord(id, response, now) ==
    [scenario_id |-> id, response |-> response, generated_at |-> now,
     model |-> MODEL_NAME, quality_score |-> None, quality_flag |-> None]

\* continue / end of the loop body: the next document, or the summary
GenAdvance(g) ==
    [g EXCEPT !.i = g.i + 1,
              !.pc = IF g.i + 1 > Len(g.docs) THEN "summary" ELSE "check",
              !.response = None]

\* db = init_firebase(); docs = list(db.collection('life_situations').stream())
GenStart ==
    /\ gen.pc \in {"idle", "done", "aborted"}
    /\ gen.runs < MaxRuns
    /\ \E ok \in BOOLEAN :
         gen' = IF ok
                THEN [pc |-> IF ScenarioIds(life_situations) = {} THEN "summary"
                             ELSE "check",
                      docs |-> SeqOfSet(ScenarioIds(life_situations)), i |-> 1,
                      generated |-> 0, failed |-> 0, response |-> None,
                      runs |-> gen.runs + 1]
                ELSE [GenIdle EXCEPT !.pc = "aborted", !.runs = gen.runs + 1]
    /\ UNCHANGED <<qualVars, life_situations, llm_response, gen_hist, embVars, srch, talkVars>>

\* the existence check of llm_response/v1 (the read may raise)
GenCheckExisting_skip(g, exists, raised) ==
    IF raised THEN GenAdvance([g EXCEPT !.failed = g.failed + 1])
    ELSE [g EXCEPT !.pc = "generate"]

GenCheckExisting(g, exists, raised) ==
    IF raised THEN GenAdvance([g EXCEPT !.failed = g.failed + 1])
    ELSE IF exists THEN GenAdvance(g)
    ELSE [g EXCEPT !.pc = "generate"]

GenCheck ==
    /\ gen.pc = "check"
    /\ \E raised \in BOOLEAN :
         gen' = GenCheckExisting(gen, llm_response[gen.docs[gen.i]] # NoDoc, raised)
    /\ UNCHANGED <<qualVars, life_situations, llm_response, gen_hist, embVars, srch, talkVars>>

\* response = generate_response(scenario_data); if not response: failed += 1
GenGenerate ==
    /\ gen.pc = "generate"
    /\ LET id == gen.docs[gen.i] IN
       /\ \E outcome \in LLMOutcomes :
            LET r == generate_response(outcome) IN
            gen' = IF Truthy(r)
                   THEN [gen EXCEPT !.pc = "save", !.response = r]
                   ELSE GenAdvance([gen EXCEPT !.failed = gen.failed + 1])
       /\ gen_hist' =
            [gen_hist EXCEPT
               !.llm_calls[id] = @ + 1,
               !.llm_on_existing =
                   IF llm_response[id] # NoDoc THEN @ \cup {id} ELSE @]
    /\ UNCHANGED <<qualVars, life_situations, llm_response, embVars, srch, talkVars>>

\* ...document('v1').set({...}); generated += 1   (the write may raise, with
\* the record stored or not)
GenSave ==
    /\ gen.pc = "save"
    /\ LET id == gen.docs[gen.i] IN
       \E outcome \in {"ok", "raise_unapplied", "raise_applied"} :
         LET applied == outcome # "raise_unapplied" IN
         /\ llm_response' =
              IF applied
              THEN [llm_response EXCEPT
                      ![id] = GenRecord(id, gen.response, gen.runs)]
              ELSE llm_response
         /\ gen_hist' =
              IF applied
              THEN [gen_hist EXCEPT
                      !.writes[id] = @ + 1,
                      !.overwritten =
                          IF llm_response[id] # NoDoc THEN @ \cup {id} ELSE @]
              ELSE gen_hist
         /\ gen' = IF outcome = "ok"
                   THEN GenAdvance([gen EXCEPT !.generated = gen.generated + 1])
                   ELSE GenAdvance([gen EXCEPT !.failed = gen.failed + 1])
    /\ UNCHANGED <<qualVars, life_situations, embVars, srch, talkVars>>

\* the final summary
GenSummary ==
    /\ gen.pc = "summary"
    /\ gen' = [gen EXCEPT !.pc = "done"]
    /\ UNCHANGED <<qualVars, life_situations, llm_response, gen_hist, embVars, srch, talkVars>>

\* the process is killed at any point of a run; the store keeps what was
\* written, the locals are lost
GenInterrupt ==
    /\ gen.pc \in {"check", "generate", "save", "summary"}
    /\ gen' = [GenIdle EXCEPT !.runs = gen.runs]
    /\ UNCHANGED <<qualVars, life_situations, llm_response, gen_hist, embVars, srch, talkVars>>

----------------------------------------------------------------------------
\* Vectors: the embedding model's outputs and the stored 'embedding' fields.
\* A field the stored record lacks reads as the default: [] for 'embedding',
\* '' for 'scenario_id' (EmptyId).

VecComps == {0, 1}
Vecs == {<<x, y>> : x \in VecComps, y \in VecComps}
ZeroVec == <<0, 0>>
EmptyVec == <<>>
EmptyId == 0

\* model.encode(create_scenario_text(data)): one fixed vector per scenario
ScenarioVec(id) == IF id % 2 = 1 THEN <<1, 0>> ELSE <<1, 1>>

\* EMBEDDING_MODEL
EMBEDDING_MODEL == "all-MiniLM-L6-v2"

----------------------------------------------------------------------------
\* backend/functions/embeddings_service.py: embed_scenarios_batch

MaxBatch == 2          \* batch_size ranges over 1..MaxBatch

EmbIdle ==
    [pc |-> "idle", batch_size |-> 1, total_docs |-> 0, offset |-> 0,
     scenarios |-> <<>>, staged |-> {}, processed |-> 0, embedded |-> 0,
     failed |-> 0, runs |-> 0]

EmbHistInit ==
    [existed |-> {}, visited |-> {}, reembedded |-> {}, rewritten |-> {},
     item_failed |-> {}, committed |-> {}, run_writes |-> [id \in Ids |-> 0]]

\* embedding_doc of embed_scenarios_batch
EmbeddingDoc(id, now) ==
    [scenario_id |-> id, embedding |-> ScenarioVec(id),
     model_name |-> EMBEDDING_MODEL, created_at |-> now]

\* SubSeq that tolerates an upper index past the end (offset/limit query)
Window(s, offset, limit) ==
    SubSeq(s, offset + 1, IF offset + limit > Len(s) THEN Len(s) ELSE offset + limit)

Range(s) == {s[k] : k \in 1..Len(s)}

\* total_docs = db.collection('life_situations').count().get()[0][0].value
EmbStart ==
    /\ emb.pc \in {"idle", "done", "aborted_setup", "aborted_item", "aborted_summary"}
    /\ emb.runs < MaxRuns
    /\ \E ok \in BOOLEAN, bs \in 1..MaxBatch :
         emb' = IF ok
                THEN [EmbIdle EXCEPT !.pc = "loop", !.batch_size = bs,
                                     !.total_docs = Cardinality(ScenarioIds(life_situations)),
                                     !.runs = emb.runs + 1]
                ELSE [EmbIdle EXCEPT !.pc = "aborted_setup", !.runs = emb.runs + 1]
    /\ emb_hist' = [EmbHistInit EXCEPT
                      !.existed = {id \in Ids : embeddings[id] # NoDoc}]
    /\ UNCHANGED <<qualVars, life_situations, embeddings, genVars, srch, talkVars>>

\* while offset < total_docs: fetch the batch at offset (the query may raise);
\* if not scenarios: break
EmbFetch ==
    /\ emb.pc = "loop"
    /\ IF emb.offset < emb.total_docs
       THEN \E ok \in BOOLEAN :
              LET docs == Window(SeqOfSet(ScenarioIds(life_situations)),
                                  emb.offset, emb.batch_size)
              IN /\ emb' = IF ~ok THEN [emb EXCEPT !.pc = "aborted_item"]
                           ELSE IF docs = <<>> THEN [emb EXCEPT !.pc = "summary"]
                           ELSE [emb EXCEPT !.pc = "encode", !.scenarios = docs]
                 /\ emb_hist' = IF ok
                                THEN [emb_hist EXCEPT !.visited = @ \cup Range(docs)]
                                ELSE emb_hist
       ELSE /\ emb' = [emb EXCEPT !.pc = "summary"]
            /\ emb_hist' = emb_hist
    /\ UNCHANGED <<qualVars, life_situations, embeddings, genVars, srch, talkVars>>

\* embeddings = model.encode(texts_to_embed)   (the model call may raise)
EmbEncode ==
    /\ emb.pc = "encode"
    /\ \E ok \in BOOLEAN :
         /\ emb' = [emb EXCEPT !.pc = IF ok THEN "stage" ELSE "aborted_item"]
         /\ emb_hist' =
              IF ok
              THEN [emb_hist EXCEPT
                      !.reembedded =
                          @ \cup {id \in Range(emb.scenarios) : embeddings[id] # NoDoc}]
              ELSE emb_hist
    /\ UNCHANGED <<qualVars, life_situations, embeddings, genVars, srch, talkVars>>

\* the scenarios of a batch whose record is put into the write batch; the
\* others (failures) are those whose try block raised
StagedOf_skip_existing(scenarios, failures, store) ==
    {id \in Range(scenarios) : store[id] = NoDoc} \ failures

StagedOf(scenarios, failures, store) == Range(scenarios) \ failures

\* for idx, (scenario_id, scenario_data) in enumerate(scenarios): try: ...
\* batch_write.set(...); embedded += 1  except: failed += 1
EmbStage ==
    /\ emb.pc = "stage"
    /\ \E failures \in SUBSET Range(emb.scenarios) :
         LET staged == StagedOf(emb.scenarios, failures, embeddings) IN
         /\ emb' = [emb EXCEPT !.pc = "commit", !.staged = staged,
                               !.embedded = @ + Cardinality(staged),
                               !.failed = @ + Cardinality(failures)]
         /\ emb_hist' = [emb_hist EXCEPT !.item_failed = @ \cup failures]
    /\ UNCHANGED <<qualVars, life_situations, embeddings, genVars, srch, talkVars>>

\* batch_write.commit(); processed += len(scenarios); offset += batch_size
EmbCommit ==
    /\ emb.pc = "commit"
    /\ \E outcome \in {"ok", "raise_unapplied", "raise_applied"} :
         LET applied == outcome # "raise_unapplied" IN
         /\ embeddings' =
              IF applied
              THEN [id \in Ids |->
                      IF id \in emb.staged THEN EmbeddingDoc(id, emb.runs)
                      ELSE embeddings[id]]
              ELSE embeddings
         /\ emb_hist' =
              IF applied
              THEN [emb_hist EXCEPT
                      !.run_writes =
                          [id \in Ids |-> IF id \in emb.staged THEN @[id] + 1 ELSE @[id]],
                      !.rewritten =
                          @ \cup {id \in emb.staged : embeddings[id] # NoDoc},
                      !.committed =
                          IF outcome = "ok" THEN @ \cup Range(emb.scenarios) ELSE @]
              ELSE emb_hist
         /\ emb' = IF outcome = "ok"
                   THEN [emb EXCEPT !.pc = "loop", !.staged = {}, !.scenarios = <<>>,
                                    !.processed = @ + Len(emb.scenarios),
                                    !.offset = @ + emb.batch_size]
                   ELSE [emb EXCEPT !.pc = "aborted_item"]
    /\ UNCHANGED <<qualVars, life_situations, genVars, srch, talkVars>>

\* the summary; elapsed/processed raises ZeroDivisionError when processed == 0
EmbSummary ==
    /\ emb.pc = "summary"
    /\ emb' = [emb EXCEPT !.pc = IF emb.processed = 0 THEN "aborted_summary"
                                 ELSE "done"]
    /\ UNCHANGED <<qualVars, life_situations, embeddings, emb_hist, genVars, srch, talkVars>>

\* the process is killed at any point of a run
EmbInterrupt ==
    /\ emb.pc \in {"loop", "encode", "stage", "commit", "summary"}
    /\ emb' = [EmbIdle EXCEPT !.runs = emb.runs]
    /\ UNCHANGED <<qualVars, life_situations, embeddings, emb_hist, genVars, srch, talkVars>>

----------------------------------------------------------------------------
\* Similarity Scorer.  A similarity is dot / sqrt(den2), kept exact as the
\* pair (dot, den2) with den2 = |a|^2 * |b|^2; 0.0 / 0.0 is the float NaN;
\* np.dot of vectors of different lengths raises ValueError.

RECURSIVE DotFrom(_, _, _)
DotFrom(a, b, k) ==
    IF k > Len(a) THEN 0 ELSE a[k] * b[k] + DotFrom(a, b, k + 1)

Dot(a, b) == DotFrom(a, b, 1)

NaN == [kind |-> "nan", dot |-> 0, den2 |-> 0]
ValueError == [kind |-> "error", dot |-> 0, den2 |-> 0]

\* float(np.dot(a, b) / (np.linalg.norm(a) * np.linalg.norm(b)))
cosine_similarity(a, b) ==
    IF Len(a) # Len(b) THEN ValueError
    ELSE IF Dot(a, a) * Dot(b, b) = 0 THEN NaN
    ELSE [kind |-> "value", dot |-> Dot(a, b), den2 |-> Dot(a, a) * Dot(b, b)]

\* the inline computation of retrieve_scenarios (same expression on lists)
inline_similarity(query_embedding, embedding) ==
    IF Len(query_embedding) # Len(embedding) THEN ValueError
    ELSE IF Dot(query_embedding, query_embedding) * Dot(embedding, embedding) = 0
         THEN NaN
    ELSE [kind |-> "value", dot |-> Dot(query_embedding, embedding),
          den2 |-> Dot(query_embedding, query_embedding) * Dot(embedding, embedding)]

\* sign(v) * v^2 * w: orders v / sqrt(1 / w) exactly
SignedSquare(v, w) == IF v < 0 THEN 0 - v * v * w ELSE v * v * w

\* float x < y: False whenever either side is NaN
FloatLT(x, y) ==
    /\ x.kind = "value"
    /\ y.kind = "value"
    /\ SignedSquare(x.dot, y.den2) < SignedSquare(y.dot, x.den2)

FloatEQ(x, y) ==
    /\ x.kind = "value"
    /\ y.kind = "value"
    /\ SignedSquare(x.dot, y.den2) = SignedSquare(y.dot, x.den2)

----------------------------------------------------------------------------
\* list.sort(key=lambda x: similarity, reverse=True) as CPython runs it on a
\* list shorter than 64: reverse, count_run, binary insertion sort, reverse.
\* Entries are records with a similarity field.

Reverse(s) == [k \in 1..Len(s) |-> s[Len(s) + 1 - k]]

KeyLT(x, y) == FloatLT(x.similarity, y.similarity)

\* length of the run starting at s[1] when it is ascending (not descending)
RECURSIVE AscRun(_, _)
AscRun(s, n) ==
    IF n >= Len(s) \/ KeyLT(s[n + 1], s[n]) THEN n ELSE AscRun(s, n + 1)

\* length of the run starting at s[1] when it is strictly descending
RECURSIVE DescRun(_, _)
DescRun(s, n) ==
    IF n >= Len(s) \/ ~KeyLT(s[n + 1], s[n]) THEN n ELSE DescRun(s, n + 1)

\* count_run followed by the reversal of a descending run: the list with its
\* first run made ascending, and the run's length
CountRun(s) ==
    IF Len(s) < 2 THEN [list |-> s, n |-> Len(s)]
    ELSE IF KeyLT(s[2], s[1])
         THEN LET n == DescRun(s, 2)
              IN [list |-> Reverse(SubSeq(s, 1, n)) \o SubSeq(s, n + 1, Len(s)),
                  n |-> n]
         ELSE [list |-> s, n |-> AscRun(s, 2)]

\* binarysort's search: the leftmost position in l..r after every element not
\* greater than pivot (positions are 1-based, r is exclusive)
RECURSIVE BinarySearch(_, _, _, _)
BinarySearch(s, pivot, l, r) ==
    IF l >= r THEN l
    ELSE LET p == l + ((r - l) \div 2)
         IN IF KeyLT(pivot, s[p]) THEN BinarySearch(s, pivot, l, p)
            ELSE BinarySearch(s, pivot, p + 1, r)

\* binarysort: s[1..start-1] is sorted; insert s[start], s[start+1], ...
RECURSIVE BinarySort(_, _)
BinarySort(s, start) ==
    IF start > Len(s) THEN s
    ELSE LET pivot == s[start]
             l == BinarySearch(s, pivot, 1, start)
             moved == [k \in 1..Len(s) |->
                         IF k < l THEN s[k]
                         ELSE IF k = l THEN pivot
                         ELSE IF k <= start THEN s[k - 1]
                         ELSE s[k]]
         IN BinarySort(moved, start + 1)

SortDescending(s) ==
    IF Len(s) < 2 THEN s
    ELSE LET run == CountRun(Reverse(s))
         IN Reverse(BinarySort(run.list, run.n + 1))

\* s[:k]
Take(s, k) == SubSeq(s, 1, IF k > Len(s) THEN Len(s) ELSE k)

----------------------------------------------------------------------------
\* backend/functions/embeddings_service.py: search_similar_scenarios

MaxTopK == 3           \* top_k ranges over 1..MaxTopK

\* db.collection_group('_embeddings').stream(): the stored records in
\* document-name order, each with the id of its document
StreamEmbeddings(store) ==
    LET ids == SeqOfSet({id \in Ids : store[id] # NoDoc})
    IN [k \in 1..Len(ids) |->
          [doc |-> ids[k], scenario_id |-> store[ids[k]].scenario_id,
           embedding |-> store[ids[k]].embedding]]

\* the (scenario_id, similarity) pairs of the scan; doc names the record a
\* pair was computed from (observer only)
ScanResults(docs, query_embedding) ==
    [k \in 1..Len(docs) |->
       [scenario_id |-> docs[k].scenario_id,
        similarity |-> cosine_similarity(query_embedding, docs[k].embedding),
        doc |-> docs[k].doc]]

\* the call's outcome: the top-k pairs, or the exception np.dot raised
search_similar_scenarios(store, query_embedding, top_k) ==
    LET results == ScanResults(StreamEmbeddings(store), query_embedding)
    IN IF \E k \in 1..Len(results) : results[k].similarity.kind = "error"
       THEN [raised |-> TRUE, results |-> <<>>]
       ELSE [raised |-> FALSE, results |-> Take(SortDescending(results), top_k)]

SrchIdle == [pc |-> "idle", query_embedding |-> ZeroVec, top_k |-> 1,
             raised |-> FALSE, results |-> <<>>]

SearchCall ==
    /\ srch.pc = "idle"
    /\ \E q \in Vecs, k \in 1..MaxTopK :
         LET out == search_similar_scenarios(embeddings, q, k)
         IN srch' = [pc |-> IF out.raised THEN "raised" ELSE "returned",
                     query_embedding |-> q, top_k |-> k,
                     raised |-> out.raised, results |-> out.results]
    /\ UNCHANGED <<qualVars, life_situations, genVars, embVars, talkVars>>

\* the caller takes the result; the next call may follow
SearchReturn ==
    /\ srch.pc \in {"returned", "raised"}
    /\ srch' = SrchIdle
    /\ UNCHANGED <<qualVars, life_situations, genVars, embVars, talkVars>>

\* the records a store may hold under _embeddings/v1: written by the job, or
\* with any vector, or lacking the embedding or the scenario_id field
StoredRecords(id) ==
    {[scenario_id |-> sid, embedding |-> e,
      model_name |-> EMBEDDING_MODEL, created_at |-> 0] :
        sid \in {id, EmptyId}, e \in Vecs \cup {EmptyVec}}

AnyStores == {f \in [Ids -> UNION {StoredRecords(id) : id \in Ids} \cup {NoDoc}] :
                \A id \in Ids : f[id] = NoDoc \/ f[id] \in StoredRecords(id)}

----------------------------------------------------------------------------
\* backend/functions/talk_to_me_function.py

\* top_k of the call retrieve_scenarios(user_query, top_k=3)
TOP_K == 3

\* The request bodies.  json names what request.get_json() does: return a
\* JSON object, return None (no JSON in the body), return a value that is no
\* object, or raise.  query is the object's 'query' value: Absent, '', a
\* text, or a truthy value that is no string.
Absent == "<absent>"
NonString == "<42>"
Queries == {"work anxiety", "sleep"}
Bodies ==
    {[json |-> "object", query |-> q] : q \in Queries \cup {Absent, "", NonString}}
      \cup {[json |-> j, query |-> Absent] : j \in {"none", "not_object", "raises"}}

IsStr(q) == q # NonString

\* model.encode(query).tolist(): one fixed vector per query
QueryVec(q) == IF q = "sleep" THEN <<0, 1>> ELSE <<1, 0>>

\* get_db / get_embedding_model: the handle after the call, whether the
\* construction raised, and whether the call constructed the handle or
\* returned the one it found.  First a variant that constructs on every call
get_handle_reconstruct(handle, ok) ==
    [handle |-> IF ok THEN "ready" ELSE None,
     raised |-> ~ok,
     constructed |-> ok,
     reused |-> FALSE]

get_handle(handle, ok) ==
    [handle |-> IF handle # None THEN handle ELSE IF ok THEN "ready" ELSE None,
     raised |-> handle = None /\ ~ok,
     constructed |-> handle = None /\ ok,
     reused |-> handle # None]

\* the successful constructions of each handle in this process
HandleHistInit == [db |-> 0, model |-> 0]

RecordConstructions(h, out) ==
    [db |-> IF out.db_constructed THEN h.db + 1 ELSE h.db,
     model |-> IF out.model_constructed THEN h.model + 1 ELSE h.model]

\* the candidates of retrieve_scenarios: one per stored record
Candidates(docs, query_embedding) ==
    [k \in 1..Len(docs) |->
       [scenario_id |-> docs[k].scenario_id,
        similarity |-> inline_similarity(query_embedding, docs[k].embedding),
        doc |-> docs[k].doc]]

\* the loop over top_candidates: a candidate is kept when its scenario
\* document is fetched and exists; a failed fetch is logged and skipped
RECURSIVE FetchScenarios(_, _, _)
FetchScenarios(cands, docs, fetch_fail) ==
    IF cands = <<>> THEN <<>>
    ELSE LET c == Head(cands)
             kept == /\ c.scenario_id # EmptyId
                     /\ c.scenario_id \notin fetch_fail
                     /\ docs[c.scenario_id] # NoDoc
         IN (IF kept
             THEN <<[id |-> c.scenario_id, similarity |-> c.similarity,
                     keyInsights |-> docs[c.scenario_id].keyInsights]>>
             ELSE <<>>) \o FetchScenarios(Tail(cands), docs, fetch_fail)

\* retrieve_scenarios: o names the outcomes of the external calls (fail: the
\* call that raises, if any, among the construction of the store client, the
\* load of the model, model.encode and the collection-group stream;
\* fetch_fail: the scenario ids whose document read raises)
retrieve_scenarios(query, top_k, store, docs, db, model, o) ==
    LET d == get_handle(db, o.fail # "db")
        m == IF d.raised
             THEN [handle |-> model, raised |-> FALSE, constructed |-> FALSE,
                   reused |-> FALSE]
             ELSE get_handle(model, o.fail # "model")
        cands == Candidates(StreamEmbeddings(store), QueryVec(query))
        failed == \/ d.raised
                  \/ m.raised
                  \/ o.fail \in {"encode", "stream"}
                  \/ \E k \in 1..Len(cands) : cands[k].similarity.kind = "error"
        top == Take(SortDescending(cands), top_k)
    IN [db_handle |-> d.handle,
        model_handle |-> m.handle,
        db_constructed |-> d.constructed,
        model_constructed |-> m.constructed,
        db_reused |-> d.reused,
        model_reused |-> m.reused,
        failed |-> failed,
        external_failure |->
            \/ d.raised
            \/ m.raised
            \/ o.fail \in {"encode", "stream"}
            \/ \E k \in 1..Len(top) :
                  /\ top[k].scenario_id # EmptyId
                  /\ \/ top[k].scenario_id \in o.fetch_fail
                     \/ docs[top[k].scenario_id] = NoDoc,
        retrieved |-> IF failed THEN <<>>
                      ELSE FetchScenarios(top, docs, o.fetch_fail)]

\* (the document reads happen only when none of the earlier calls raised)
RetrieveOutcomes ==
    {o \in [fail : {"none", "db", "model", "encode", "stream"},
            fetch_fail : SUBSET Ids] :
        o.fail # "none" => o.fetch_fail = {}}

\* build_rag_prompt raises when ', '.join meets malformed keyInsights
build_rag_prompt_raises(retrieved_scenarios) ==
    \E k \in 1..Len(retrieved_scenarios) :
        retrieved_scenarios[k].keyInsights = Malformed

\* generate_coaching_with_ollama: the trimmed completion, or None
generate_coaching_with_ollama(outcome) ==
    CASE outcome = "completion" -> "text"
      [] outcome = "empty_completion" -> ""
      [] OTHER -> None

\* the insights of one scenario: keyInsights[:2]
RECURSIVE AllInsights(_)
AllInsights(scenarios) ==
    IF scenarios = <<>> THEN <<>>
    ELSE LET s == Head(scenarios)
             n == IF s.keyInsights > 2 THEN 2 ELSE s.keyInsights
         IN [k \in 1..n |-> [scenario |-> s.id, insight |-> k]]
              \o AllInsights(Tail(scenarios))

Boilerplate(n) == [k \in 1..n |-> [scenario |-> 0, insight |-> k]]

Steps3(d1, d2, d3) ==
    <<[step |-> 1, duration |-> d1], [step |-> 2, duration |-> d2],
      [step |-> 3, duration |-> d3]>>

\* generate_coaching_template_fallback: raised is the AttributeError of
\* user_query.lower() on a query that is no string
generate_coaching_template_fallback(user_query, scenarios) ==
    IF scenarios = <<>>
    THEN [raised |-> FALSE,
          empathy |-> "I understand you're facing a challenge.",
          mindfulPerspective |-> "Remember that all challenges are opportunities for growth.",
          practicalSteps |-> Boilerplate(3),
          actionPlan |-> Steps3(2, 5, 5),
          relatedPractices |-> <<"breathing_box", "meditation_5min", "grounding">>,
          warnings |-> <<"This is not professional advice. Seek help if needed.">>]
    ELSE LET all_insights == AllInsights(scenarios) IN
         [raised |-> ~IsStr(user_query),
          empathy |-> "I hear you about ...",
          mindfulPerspective |-> "Our app's wisdom on this topic emphasizes: ...",
          practicalSteps |-> IF all_insights # <<>> THEN Take(all_insights, 3)
                             ELSE Boilerplate(3),
          actionPlan |-> Steps3(2, 3, 5),
          relatedPractices |-> <<"breathing_box", "grounding_5_4_3_2_1", "self_compassion">>,
          warnings |-> <<"This guidance is supportive, not professional medical advice">>]

\* parse_coaching_response
parse_coaching_response(raw_response, query, scenarios) ==
    [raised |-> FALSE,
     actionPlan |-> Steps3(2, 5, 5),
     relatedPractices |-> <<"breathing_box", "meditation", "grounding">>]

\* the three responses of talk_to_me
NoResponse ==
    [status |-> 0, keys |-> {}, success |-> FALSE, offline |-> FALSE,
     response |-> None, retrievedScenarios |-> <<>>, actionPlan |-> <<>>,
     relatedPractices |-> <<>>]

ClientError == [NoResponse EXCEPT !.status = 400, !.keys = {"error"}]

InternalError ==
    [NoResponse EXCEPT !.status = 500, !.keys = {"success", "error", "offline"},
                       !.success = FALSE, !.offline = TRUE]

response_data(coaching_response, coaching_response_json, retrieved_scenarios) ==
    [status |-> 200,
     keys |-> {"success", "query", "response", "retrievedScenarios", "actionPlan",
               "relatedPractices", "generatedAt", "modelVersion", "latencySeconds",
               "offline"},
     success |-> TRUE,
     offline |-> coaching_response = None,
     response |-> IF Truthy(coaching_response) THEN coaching_response
                  ELSE "Using cached response",
     retrievedScenarios |->
         [k \in 1..Len(retrieved_scenarios) |->
            [id |-> retrieved_scenarios[k].id,
             similarity |-> retrieved_scenarios[k].similarity]],
     actionPlan |-> coaching_response_json.actionPlan,
     relatedPractices |-> coaching_response_json.relatedPractices]

ReqIdle ==
    [pc |-> "idle", body |-> [json |-> "none", query |-> Absent],
     user_query |-> "", retrieved |-> <<>>, llm |-> "Idle",
     coaching_response |-> None, result |-> NoResponse]

\* no fallback structure (the fallback has not been called)
NoJson ==
    [raised |-> FALSE, empathy |-> "", mindfulPerspective |-> "",
     practicalSteps |-> <<>>, actionPlan |-> <<>>, relatedPractices |-> <<>>,
     warnings |-> <<>>]

TalkHistInit ==
    [retrieval |-> FALSE, prompt |-> FALSE, llm_requests |-> 0,
     fallback |-> FALSE, parsed |-> FALSE, raised |-> FALSE,
     retrieval_failed |-> FALSE, external_failure |-> FALSE, llm_outcome |-> None,
     fallback_json |-> NoJson, handles_reused |-> FALSE]

\* an exception with no handler around it: the fault reaches the caller
HandleException_unhandled(r) == [r EXCEPT !.pc = "faulted"]

\* the except clause of talk_to_me: the error response
HandleException(r) == [r EXCEPT !.pc = "responded", !.result = InternalError]

\* request_json = request.get_json(); user_query = request_json.get('query', '')
\* if not user_query: return {"error": ...}, 400
TalkReceive ==
    /\ req.pc = "idle"
    /\ \E body \in Bodies :
         LET r == [ReqIdle EXCEPT !.body = body] IN
         IF body.json # "object"
         THEN /\ req' = HandleException(r)
              /\ talk_hist' = [TalkHistInit EXCEPT !.raised = TRUE]
         ELSE LET user_query == IF body.query = Absent THEN "" ELSE body.query IN
              /\ req' = IF user_query = ""
                        THEN [r EXCEPT !.pc = "responded", !.result = ClientError]
                        ELSE [r EXCEPT !.pc = "retrieve", !.user_query = user_query]
              /\ talk_hist' = TalkHistInit
    /\ UNCHANGED <<qualVars, life_situations, genVars, embVars, srch, db_handle, model_handle, handle_hist>>

\* retrieved_scenarios = retrieve_scenarios(user_query, top_k=3)
TalkRetrieve ==
    /\ req.pc = "retrieve"
    /\ \E o \in RetrieveOutcomes :
         LET out == retrieve_scenarios(req.user_query, TOP_K, embeddings,
                                       life_situations, db_handle, model_handle, o)
         IN /\ req' = [req EXCEPT !.pc = "prompt", !.retrieved = out.retrieved]
            /\ db_handle' = out.db_handle
            /\ model_handle' = out.model_handle
            /\ handle_hist' = RecordConstructions(handle_hist, out)
            /\ talk_hist' = [talk_hist EXCEPT
                                !.retrieval = TRUE,
                                !.handles_reused = out.db_reused /\ out.model_reused,
                                !.retrieval_failed = out.failed,
                                !.external_failure = out.external_failure]
    /\ UNCHANGED <<qualVars, life_situations, genVars, embVars, srch>>

\* rag_prompt = build_rag_prompt(user_query, retrieved_scenarios)
TalkPrompt ==
    /\ req.pc = "prompt"
    /\ IF build_rag_prompt_raises(req.retrieved)
       THEN /\ req' = HandleException(req)
            /\ talk_hist' = [talk_hist EXCEPT !.prompt = TRUE, !.raised = TRUE]
       ELSE /\ req' = [req EXCEPT !.pc = "generate"]
            /\ talk_hist' = [talk_hist EXCEPT !.prompt = TRUE]
    /\ UNCHANGED <<qualVars, life_situations, genVars, embVars, srch, db_handle, model_handle, handle_hist>>

\* generate_coaching_with_ollama: requests.post(...) is issued
TalkLLMRequest ==
    /\ req.pc = "generate"
    /\ req.llm = "Idle"
    /\ req' = [req EXCEPT !.llm = "Requesting"]
    /\ talk_hist' = [talk_hist EXCEPT !.llm_requests = @ + 1]
    /\ UNCHANGED <<qualVars, life_situations, genVars, embVars, srch, db_handle, model_handle, handle_hist>>

\* a generator that issues the request again when it has failed
AfterRequest_retry(r, text) ==
    IF text = None THEN [r EXCEPT !.llm = "Idle"]
    ELSE [r EXCEPT !.pc = "respond", !.llm = "Completed", !.coaching_response = text]

\* the return of generate_coaching_with_ollama: the text, or None from one
\* of the except clauses; the caller goes on with the value
AfterRequest(r, text) ==
    [r EXCEPT !.pc = "respond",
              !.llm = IF text = None THEN "Unavailable" ELSE "Completed",
              !.coaching_response = text]

\* generate_coaching_with_ollama: the request ends; every exception is caught
TalkLLMResult ==
    /\ req.pc = "generate"
    /\ req.llm = "Requesting"
    /\ \E outcome \in LLMOutcomes :
         LET text == generate_coaching_with_ollama(outcome) IN
         /\ req' = AfterRequest(req, text)
         /\ talk_hist' = [talk_hist EXCEPT !.llm_outcome = outcome]
    /\ UNCHANGED <<qualVars, life_situations, genVars, embVars, srch, db_handle, model_handle, handle_hist>>

\* if not coaching_response: template fallback, else parse; response_data, 200
TalkRespond ==
    /\ req.pc = "respond"
    /\ LET use_fallback == ~Truthy(req.coaching_response)
           json == IF use_fallback
                   THEN generate_coaching_template_fallback(req.user_query, req.retrieved)
                   ELSE parse_coaching_response(req.coaching_response,
                                                req.user_query, req.retrieved)
       IN /\ req' = IF json.raised THEN HandleException(req)
                    ELSE [req EXCEPT
                            !.pc = "responded",
                            !.result = response_data(req.coaching_response, json,
                                                     req.retrieved)]
          /\ talk_hist' = [talk_hist EXCEPT !.fallback = use_fallback,
                                            !.parsed = ~use_fallback,
                                            !.raised = json.raised,
                                            !.fallback_json =
                                                IF use_fallback THEN json ELSE NoJson]
    /\ UNCHANGED <<qualVars, life_situations, genVars, embVars, srch, db_handle, model_handle, handle_hist>>

\* the response reaches the caller; the process serves the next request
TalkReturn ==
    /\ req.pc = "responded"
    /\ req' = ReqIdle
    /\ talk_hist' = TalkHistInit
    /\ UNCHANGED <<qualVars, life_situations, genVars, embVars, srch, db_handle, model_handle, handle_hist>>

\* the stores the request path is run against: per scenario no record, the
\* job's record, a record with an all-zero vector, or one lacking 'embedding'
TalkStores ==
    {f \in AnyStores :
        \A id \in Ids :
            \/ f[id] = NoDoc
            \/ /\ f[id].scenario_id = id
               /\ f[id].embedding \in {ScenarioVec(id), ZeroVec, EmptyVec}}

\* the corpora the request path is run against: every scenario document
\* exists, or the first one has been deleted, or the last one holds
\* malformed keyInsights
TalkDocs ==
    {FullCorpus,
     [FullCorpus EXCEPT ![1] = NoDoc],
     [FullCorpus EXCEPT ![NumScenarios] = ScenarioDoc(NumScenarios, Malformed)]}

TalkQuiet ==
    /\ db_handle = None
    /\ model_handle = None
    /\ handle_hist = HandleHistInit
    /\ req = ReqIdle
    /\ talk_hist = TalkHistInit

\* the embedding records an earlier run left in the store
EmbStores ==
    {[id \in Ids |-> IF id \in S THEN EmbeddingDoc(id, 0) ELSE NoDoc] :
        S \in SUBSET Ids}

\* the responses an earlier run left in the store
GenStores ==
    {[id \in Ids |-> IF id \in S THEN GenRecord(id, "text", 0) ELSE NoDoc] :
        S \in SUBSET Ids}

----------------------------------------------------------------------------
\* scripts/quality_check_all.py
\*
\* A text is known by its number of words and by the terms that occur in its
\* lower-cased form as substrings; the empty string occurs in every text.
\* title and description are the word lists str.split() gives; a field the
\* scenario document lacks reads as its default.

Text(words, contains) == [words |-> words, contains |-> contains]
EmptyText == Text(0, {})

\* term in response_lower
Occurs(term, text) == term = "" \/ term \in text.contains

\* str.lower() on the words of the model
Lower(w) ==
    CASE w = "Stress" -> "stress"
      [] w = "Work" -> "work"
      [] OTHER -> w

\* dict.get(field, default)
Get(doc, field, default) == IF field \in DOMAIN doc THEN doc[field] ELSE default

Max(a, b) == IF a > b THEN a ELSE b

\* QUALITY_THRESHOLD = 0.70, in hundredths
QUALITY_THRESHOLD == 70

\* markers of calculate_quality_score
Markers ==
    {"mindful", "breath", "practice", "ground", "aware", "compassion", "technique"}

\* keywords: the lower-cased title and description words longer than 3
Keywords(scenario) ==
    LET title == Get(scenario, "title", <<>>)
        description == Get(scenario, "description", <<>>)
        words == {Lower(title[k]) : k \in 1..Len(title)}
                   \cup {Lower(description[k]) : k \in 1..Len(description)}
    IN {k \in words : Len(k) > 3}

\* calculate_quality_score: the score is kept exact as num / den
calculate_quality_score(scenario, response) ==
    LET keywords == Keywords(scenario)
        matched == {k \in keywords : Occurs(k, response)}
        tags == Get(scenario, "tags", <<>>)
        matched_tags == SelectSeq(tags, LAMBDA t : Occurs(Lower(t), response))
        K == Max(Cardinality(keywords), 1)
        T == Max(Len(tags), 1)
        length == IF response.words > 100 THEN 100 ELSE response.words
        wellness_count == Cardinality({m \in Markers : Occurs(m, response)})
        wellness == IF wellness_count > 3 THEN 3 ELSE wellness_count
    IN [score |->
          [num |-> 40 * Cardinality(matched) * T * 300
                     + 30 * Len(matched_tags) * K * 300
                     + 15 * length * K * T * 3
                     + 15 * wellness * K * T * 100,
           den |-> 100 * K * T * 300],
        keyword_score |-> [num |-> Cardinality(matched), den |-> K],
        tag_score |-> [num |-> Len(matched_tags), den |-> T],
        length_score |-> [num |-> length, den |-> 100],
        wellness_score |-> [num |-> wellness, den |-> 3],
        matched |-> matched,
        matched_tags |-> matched_tags]

\* score >= QUALITY_THRESHOLD
MeetsThreshold(score) == score.num * 100 >= QUALITY_THRESHOLD * score.den

\* flag = 'pass' if score >= QUALITY_THRESHOLD else 'fail'
FlagOf(score) == IF MeetsThreshold(score) THEN "pass" ELSE "fail"

\* a write that also refreshes the generation timestamp of the record
UpdateRecord_touch(record, fields) ==
    fields @@ [record EXCEPT !.generated_at = @ + 1]

\* DocumentReference.update: the given fields are set, the others are kept
UpdateRecord(record, fields) == fields @@ record

QualIdle ==
    [pc |-> "idle", docs |-> <<>>, i |-> 1, passed |-> 0, failed |-> 0,
     no_response |-> 0, runs |-> 0]

\* the records the current run has updated
QualHistInit == [flagged |-> {}]

\* continue / end of the loop body
QualAdvance(q) ==
    [q EXCEPT !.i = q.i + 1,
              !.pc = IF q.i + 1 > Len(q.docs) THEN "summary" ELSE "check"]

\* the module is loaded: def calculate_quality_score(scenario: Dict, ...)
\* names Dict, which the module never imports.  An interpreter that
\* evaluates annotations when the def statement runs raises NameError there;
\* one that defers them defines the function and goes on to main()
QualLoad ==
    /\ qc.pc \in {"idle", "done", "name_error", "aborted"}
    /\ qc.runs < MaxRuns
    /\ \E annotations_deferred \in BOOLEAN :
         qc' = [QualIdle EXCEPT
                  !.pc = IF annotations_deferred THEN "main" ELSE "name_error",
                  !.runs = qc.runs + 1]
    /\ qc_hist' = QualHistInit
    /\ UNCHANGED <<life_situations, genVars, embVars, srch, talkVars>>

\* db = init_firebase(); docs = list(db.collection('life_situations').stream())
QualStart ==
    /\ qc.pc = "main"
    /\ \E ok \in BOOLEAN :
         qc' = IF ~ok THEN [qc EXCEPT !.pc = "aborted"]
               ELSE [qc EXCEPT
                       !.docs = SeqOfSet(ScenarioIds(life_situations)),
                       !.pc = IF ScenarioIds(life_situations) = {} THEN "summary"
                              ELSE "check"]
    /\ UNCHANGED <<qc_hist, life_situations, genVars, embVars, srch, talkVars>>

\* response_doc = ...document('v1').get(); if not response_doc.exists:
\* no_response += 1; continue   (the read may raise: logged, next document)
QualCheck ==
    /\ qc.pc = "check"
    /\ LET id == qc.docs[qc.i] IN
       \E raised \in BOOLEAN :
         /\ qc' = IF raised THEN QualAdvance(qc)
                  ELSE IF llm_response[id] = NoDoc
                  THEN QualAdvance([qc EXCEPT !.no_response = @ + 1])
                  ELSE [qc EXCEPT !.pc = "score"]
    /\ UNCHANGED <<qc_hist, life_situations, genVars, embVars, srch, talkVars>>

\* score, keywords, tags = calculate_quality_score(scenario_data,
\* response_text); flag; ...document('v1').update({...}); passed / failed
\* (the update may raise, with the fields stored or not)
QualScore ==
    /\ qc.pc = "score"
    /\ LET id == qc.docs[qc.i]
           response_text == Get(llm_response[id], "response", EmptyText)
           result == calculate_quality_score(life_situations[id], response_text)
           flag == FlagOf(result.score)
           fields == [quality_score |-> result.score, quality_flag |-> flag,
                      matched_keywords |-> result.matched,
                      matched_tags |-> result.matched_tags]
       IN \E outcome \in {"ok", "raise_unapplied", "raise_applied"} :
            /\ llm_response' =
                 IF outcome # "raise_unapplied"
                 THEN [llm_response EXCEPT ![id] = UpdateRecord(@, fields)]
                 ELSE llm_response
            /\ qc' = IF outcome # "ok" THEN QualAdvance(qc)
                     ELSE IF MeetsThreshold(result.score)
                     THEN QualAdvance([qc EXCEPT !.passed = @ + 1])
                     ELSE QualAdvance([qc EXCEPT !.failed = @ + 1])
            /\ qc_hist' = IF outcome # "raise_unapplied"
                          THEN [qc_hist EXCEPT !.flagged = @ \cup {id}]
                          ELSE qc_hist
    /\ UNCHANGED <<life_situations, gen, gen_hist, embVars, srch, talkVars>>

\* the final summary
QualSummary ==
    /\ qc.pc = "summary"
    /\ qc' = [qc EXCEPT !.pc = "done"]
    /\ UNCHANGED <<qc_hist, life_situations, genVars, embVars, srch, talkVars>>

\* the parts of the system a specification leaves at rest
EmbQuiet ==
    /\ embeddings = [id \in Ids |-> NoDoc]
    /\ emb = EmbIdle
    /\ emb_hist = EmbHistInit

SrchQuiet == srch = SrchIdle

GenQuiet ==
    /\ llm_response = [id \in Ids |-> NoDoc]
    /\ gen = GenIdle
    /\ gen_hist = GenHistInit

QualQuiet ==
    /\ qc = QualIdle
    /\ qc_hist = QualHistInit

\* the scenario documents the quality job is run against: scenarios with
\* keywords and tags, without keywords, without the tags field, and with an
\* empty tag
ScenarioContents ==
    <<[title |-> <<"Work", "anxiety">>, tags |-> <<"Stress", "sleep">>],
      [title |-> <<"the", "job">>, tags |-> <<"sleep">>],
      [title |-> <<"anxiety">>, description |-> <<"at", "work">>],
      [title |-> <<"sleep">>, tags |-> <<"">>]>>

QualDoc(id, shift) ==
    ScenarioContents[((id + shift) % Len(ScenarioContents)) + 1]
        @@ ScenarioDoc(id, DefaultInsights(id))

QualCorpora ==
    {[id \in Ids |-> QualDoc(id, shift)] : shift \in 1..Len(ScenarioContents)}

\* the lower-cased tags of a scenario
TagTerms(scenario) ==
    LET tags == Get(scenario, "tags", <<>>) IN {Lower(tags[k]) : k \in 1..Len(tags)}

\* the response texts a record may hold for a scenario: the empty text, a
\* text of 100 words with every keyword, every tag and 3 markers, a long text
\* with markers only, and a short text with the keywords and one marker
QualTexts(scenario) ==
    <<EmptyText,
      Text(100, Keywords(scenario) \cup TagTerms(scenario)
                  \cup {"mindful", "breath", "practice"}),
      Text(150, {"mindful", "breath", "practice", "ground"}),
      Text(50, Keywords(scenario) \cup {"mindful"})>>

\* the generated responses an earlier generation run left in the store: any
\* subset of the scenarios has a record, the records holding texts of one kind
QualStores(docs) ==
    {[id \in Ids |-> IF id \in S THEN GenRecord(id, QualTexts(docs[id])[kind], 0)
                     ELSE NoDoc] :
        S \in SUBSET Ids, kind \in 1..Len(QualTexts(docs[1]))}

----------------------------------------------------------------------------
\* Specifications

GenInit ==
    /\ life_situations \in Corpora
    /\ llm_response \in GenStores
    /\ gen = GenIdle
    /\ gen_hist = GenHistInit
    /\ EmbQuiet
    /\ SrchQuiet
    /\ TalkQuiet
    /\ QualQuiet

GenNext ==
    \/ GenStart
    \/ GenCheck
    \/ GenGenerate
    \/ GenSave
    \/ GenSummary
    \/ GenInterrupt

SpecGen == GenInit /\ [][GenNext]_vars

EmbInit ==
    /\ life_situations \in Corpora
    /\ embeddings \in EmbStores
    /\ emb = EmbIdle
    /\ emb_hist = EmbHistInit
    /\ GenQuiet
    /\ SrchQuiet
    /\ TalkQuiet
    /\ QualQuiet

EmbNext ==
    \/ EmbStart
    \/ EmbFetch
    \/ EmbEncode
    \/ EmbStage
    \/ EmbCommit
    \/ EmbSummary
    \/ EmbInterrupt

SpecEmbed == EmbInit /\ [][EmbNext]_vars

SearchInit ==
    /\ life_situations = FullCorpus
    /\ embeddings \in AnyStores
    /\ emb = EmbIdle
    /\ emb_hist = EmbHistInit
    /\ GenQuiet
    /\ srch = SrchIdle
    /\ TalkQuiet
    /\ QualQuiet

SearchNext ==
    \/ SearchCall
    \/ SearchReturn

SpecSearch == SearchInit /\ [][SearchNext]_vars

TalkInit ==
    /\ life_situations \in TalkDocs
    /\ embeddings \in TalkStores
    /\ emb = EmbIdle
    /\ emb_hist = EmbHistInit
    /\ GenQuiet
    /\ SrchQuiet
    /\ TalkQuiet
    /\ QualQuiet

TalkNext ==
    \/ TalkReceive
    \/ TalkRetrieve
    \/ TalkPrompt
    \/ TalkLLMRequest
    \/ TalkLLMResult
    \/ TalkRespond
    \/ TalkReturn

SpecTalk == TalkInit /\ [][TalkNext]_vars

QualInit ==
    /\ life_situations \in QualCorpora
    /\ llm_response \in QualStores(life_situations)
    /\ gen = GenIdle
    /\ gen_hist = GenHistInit
    /\ EmbQuiet
    /\ SrchQuiet
    /\ TalkQuiet
    /\ QualQuiet

QualNext ==
    \/ QualLoad
    \/ QualStart
    \/ QualCheck
    \/ QualScore
    \/ QualSummary

SpecQuality == QualInit /\ [][QualNext]_vars

----------------------------------------------------------------------------
\* Properties

Min(a, b) == IF a < b THEN a ELSE b

\* Python's x >= y on floats: False whenever either side is NaN
FloatGE(x, y) == FloatLT(y, x) \/ FloatEQ(x, y)

\* a similarity that is the defined value 0
IsZeroSimilarity(x) == x.kind = "value" /\ x.dot = 0

\* C1: in every success (status 200) response of talk_to_me, offline is true
\* exactly when the template fallback was used: a generator that ends
\* Unavailable gives the fallback branch and offline == true, a generator
\* that returns a completion gives no fallback and offline == false.
C1_OfflineIffFallback ==
    (req.pc = "responded" /\ req.result.status = 200) =>
        /\ req.result.offline <=> talk_hist.fallback
        /\ req.llm = "Unavailable" => (talk_hist.fallback /\ req.result.offline)
        /\ req.llm = "Completed" => (~talk_hist.fallback /\ ~req.result.offline)

\* C2: the generation job creates a scenario's generated-response record
\* only if it is absent: over any sequence of runs, interrupted and restarted
\* at any point, each record is written at most once, an existing record is
\* never overwritten, and no LLM call is issued for a scenario that already
\* has a record.
C2_CreateOnlyIfAbsent ==
    /\ \A id \in Ids : gen_hist.writes[id] <= 1
    /\ gen_hist.overwritten = {}
    /\ gen_hist.llm_on_existing = {}

\* a second run has visited a scenario whose record the first run wrote, and
\* has ended without writing it again
C2_Witness ==
    /\ gen.runs = 2
    /\ gen.pc = "done"
    /\ \E id \in Ids :
         /\ llm_response[id] # NoDoc
         /\ llm_response[id].generated_at = 1
         /\ gen_hist.writes[id] = 1

C4_ItemFailureNeverAborts ==
    /\ gen.pc # "aborted_item"
    /\ emb.pc # "aborted_item"

\* C5: whenever the request carries no non-empty 'query' value (field
\* absent, empty string, or no JSON object in the body), talk_to_me returns
\* the client error (status 400) and performs no processing: no retrieval,
\* no prompt building, no LLM call, no fallback.
C5_MissingQueryIsClientError ==
    (/\ req.pc = "responded"
     /\ \/ req.body.json # "object"
        \/ req.body.query \in {Absent, ""}) =>
        /\ req.result = ClientError
        /\ ~talk_hist.retrieval
        /\ ~talk_hist.prompt
        /\ talk_hist.llm_requests = 0
        /\ ~talk_hist.fallback

\* C6: no fault escapes talk_to_me.  Whatever the request and the outcomes of
\* the store, the embedding model and the LLM, the invocation ends with one
\* response (none before it ends, never a fault reaching the caller), and the
\* response is the error shape {success: false, error, offline: true} with
\* status 500 exactly when an exception reached the function's handler.
C6_NoFaultEscapes ==
    /\ req.pc \in {"idle", "retrieve", "prompt", "generate", "respond", "responded"}
    /\ req.pc # "responded" => req.result = NoResponse
    /\ req.pc = "responded" =>
         /\ req.result.status \in {200, 400, 500}
         /\ talk_hist.raised <=> req.result = InternalError
         /\ req.result.status = 500 =>
              /\ req.result.keys = {"success", "error", "offline"}
              /\ ~req.result.success
              /\ req.result.offline
         /\ req.result.status = 200 => req.result.success

\* an exception raised after retrieval (in the prompt builder or the
\* fallback) has been answered with the error response
C6_Witness ==
    /\ req.pc = "responded"
    /\ talk_hist.raised
    /\ talk_hist.retrieval
    /\ req.result = InternalError

\* the records of the store, and the similarity the scorer gives each
RecordCount == Cardinality({id \in Ids : embeddings[id] # NoDoc})

ScoreOf(doc, query_embedding) ==
    cosine_similarity(query_embedding, embeddings[doc].embedding)

\* C7: search_similar_scenarios, for a corpus of n embedding records and a
\* positive top_k, returns exactly min(top_k, n) (scenario_id, similarity)
\* pairs sorted by non-increasing similarity, each similarity being the
\* scorer's value for the query and that record, and no omitted record has a
\* strictly higher similarity than a returned one.
C7_TopKSortedByScore ==
    srch.pc \in {"returned", "raised"} =>
        LET r == srch.results
            returned == {r[k].doc : k \in 1..Len(r)}
        IN /\ srch.pc = "returned"
           /\ Len(r) = Min(srch.top_k, RecordCount)
           /\ \A k \in 1..Len(r) :
                r[k].similarity = ScoreOf(r[k].doc, srch.query_embedding)
           /\ \A k \in 1..(Len(r) - 1) :
                FloatGE(r[k].similarity, r[k + 1].similarity)
           /\ \A id \in Ids, k \in 1..Len(r) :
                (embeddings[id] # NoDoc /\ id \notin returned) =>
                    ~FloatLT(r[k].similarity, ScoreOf(id, srch.query_embedding))

\* C8: on the request path, for a corpus of n >= top_k embedding records
\* (every external call succeeding), retrieve_scenarios returns exactly top_k
\* scenarios in descending similarity order: retrievedScenarios has exactly
\* top_k entries and its first entry is a record of maximal similarity.
C8_ExactlyTopKDescending ==
    (/\ req.pc = "responded"
     /\ req.result.status = 200
     /\ ~talk_hist.external_failure
     /\ RecordCount >= TOP_K) =>
        LET r == req.result.retrievedScenarios
            q == QueryVec(req.user_query)
        IN /\ Len(r) = TOP_K
           /\ \A k \in 1..(Len(r) - 1) :
                FloatGE(r[k].similarity, r[k + 1].similarity)
           /\ \A id \in Ids :
                embeddings[id] # NoDoc =>
                    FloatGE(r[1].similarity,
                            inline_similarity(q, embeddings[id].embedding))

\* C9: the similarity computation is total: when the query vector or a
\* stored vector is all-zero, the similarity the retriever uses is the
\* defined value 0, never NaN and never an error.
C9_ZeroVectorScoresZero ==
    srch.pc = "returned" =>
        \A k \in 1..Len(srch.results) :
            (\/ srch.query_embedding = ZeroVec
             \/ embeddings[srch.results[k].doc].embedding = ZeroVec) =>
                IsZeroSimilarity(srch.results[k].similarity)

\* C10: malformed stored data is never fatal to retrieval: when a stored
\* record lacks a field (scenario_id or embedding, read as the empty
\* default), retrieval completes and still returns the other records ranked
\* by similarity; it neither raises nor discards their results.
C10_MalformedNeverFatal ==
    (/\ srch.pc \in {"returned", "raised"}
     /\ \E id \in Ids : /\ embeddings[id] # NoDoc
                        /\ \/ embeddings[id].embedding = EmptyVec
                           \/ embeddings[id].scenario_id = EmptyId) =>
        /\ srch.pc = "returned"
        /\ Len(srch.results) = Min(srch.top_k, RecordCount)

\* C17: with no external call failing and the corpus unchanged during the
\* run, embed_scenarios_batch terminates normally for every corpus size
\* n >= 0 (the empty corpus included) and every batch_size >= 1: the run never
\* ends in an exception of its own, and when it has returned, embedded +
\* failed = processed = n and (no item having failed) the v1 embedding record
\* of every scenario has been written by the run exactly once.
C17_TerminatesNormally ==
    /\ emb.pc # "aborted_summary"
    /\ emb.pc = "done" =>
         /\ emb.embedded + emb.failed = emb.processed
         /\ emb.processed = Cardinality(ScenarioIds(life_situations))
         /\ emb_hist.item_failed = {} =>
              \A id \in ScenarioIds(life_situations) :
                  /\ emb_hist.run_writes[id] = 1
                  /\ embeddings[id] = EmbeddingDoc(id, emb.runs)

\* a response that contains every keyword and every tag of the scenario, has
\* at least 100 words and contains at least 3 marker words
FullMatch(scenario, response) ==
    /\ \A k \in Keywords(scenario) : Occurs(k, response)
    /\ \A t \in TagTerms(scenario) : Occurs(t, response)
    /\ response.words >= 100
    /\ Cardinality({m \in Markers : Occurs(m, response)}) >= 3

\* C11: for every scenario record, whatever its number of keywords and tags,
\* and every response that contains every keyword and every tag, has at least
\* 100 words and contains at least 3 marker words, calculate_quality_score
\* is defined and returns the maximal score 1.0, and the record the quality
\* job has updated carries that score and the flag 'pass'.
C11_FullMatchScoresOne ==
    /\ qc.pc # "name_error"
    /\ \A id \in qc_hist.flagged :
         FullMatch(life_situations[id], llm_response[id].response) =>
            /\ llm_response[id].quality_score.num = llm_response[id].quality_score.den
            /\ llm_response[id].quality_flag = "pass"

\* C12: for every scenario record, an empty response text makes all four
\* sub-scores zero: calculate_quality_score is defined and returns score 0
\* with empty matched-keyword and matched-tag lists, and the record the
\* quality job has updated carries them and the flag 'fail'.
C12_EmptyResponseScoresZero ==
    /\ qc.pc # "name_error"
    /\ \A id \in qc_hist.flagged :
         llm_response[id].response = EmptyText =>
            LET result == calculate_quality_score(life_situations[id], EmptyText) IN
            /\ result.keyword_score.num = 0
            /\ result.tag_score.num = 0
            /\ result.length_score.num = 0
            /\ result.wellness_score.num = 0
            /\ llm_response[id].quality_score.num = 0
            /\ llm_response[id].matched_keywords = {}
            /\ llm_response[id].matched_tags = <<>>
            /\ llm_response[id].quality_flag = "fail"

\* the fields of a generated-response record the generation job owns
Kept(record) ==
    [scenario_id |-> record.scenario_id, response |-> record.response,
     generated_at |-> record.generated_at, model |-> record.model]

AnnotationFields ==
    {"quality_score", "quality_flag", "matched_keywords", "matched_tags"}

\* C13: the quality job only annotates.  Every step of the job leaves a
\* scenario without generated-response record without one, and changes
\* nothing of an existing record but its quality_score, quality_flag,
\* matched_keywords and matched_tags fields: the record is never deleted and
\* its response text, generation timestamp and model stay as they were; an
\* annotated record has flag 'pass' iff its score is >= 0.70, else 'fail'.
C13_OnlyAnnotates ==
    /\ [](\A id \in Ids :
            (llm_response[id] # NoDoc /\ llm_response[id].quality_flag # None) =>
                llm_response[id].quality_flag =
                    IF MeetsThreshold(llm_response[id].quality_score)
                    THEN "pass" ELSE "fail")
    /\ [][\A id \in Ids :
            IF llm_response[id] = NoDoc THEN llm_response'[id] = NoDoc
            ELSE /\ llm_response'[id] # NoDoc
                 /\ Kept(llm_response'[id]) = Kept(llm_response[id])
                 /\ DOMAIN llm_response'[id] \subseteq
                       DOMAIN llm_response[id] \cup AnnotationFields]_vars

\* a run has ended after flagging a record 'fail' (its text still there) and
\* passing over a scenario that has no record
C13_Witness ==
    /\ qc.pc = "done"
    /\ qc.no_response > 0
    /\ \E id \in qc_hist.flagged :
         /\ llm_response[id].quality_flag = "fail"
         /\ llm_response[id].response = QualTexts(life_situations[id])[3]
         /\ llm_response[id].generated_at = 0
    /\ \E id \in Ids : llm_response[id] = NoDoc

\* C14: generate_coaching_template_fallback returns the full fixed shape for
\* every query and every list of retrieved scenarios, empty or not and
\* whatever the number of key insights of the scenarios: a non-empty empathy
\* line, a perspective line, exactly 3 practical steps, exactly 3 action-plan
\* steps each with a duration, exactly 3 related practices and at least 1
\* warning; never an empty or partial structure.
C14_FallbackFullShape ==
    (talk_hist.fallback /\ ~talk_hist.fallback_json.raised) =>
        LET json == talk_hist.fallback_json IN
        /\ json.empathy # ""
        /\ json.mindfulPerspective # ""
        /\ Len(json.practicalSteps) = 3
        /\ Len(json.actionPlan) = 3
        /\ \A k \in 1..Len(json.actionPlan) : json.actionPlan[k].duration > 0
        /\ Len(json.relatedPractices) = 3
        /\ Len(json.warnings) >= 1

\* the steps of one call of the generator
GeneratorSteps ==
    {<<"Idle", "Requesting">>, <<"Requesting", "Completed">>,
     <<"Requesting", "Unavailable">>}

\* C15: a call of generate_coaching_with_ollama follows Idle -> Requesting
\* -> {Completed | Unavailable} and stops there: it issues at most one
\* request to the LLM endpoint (no retry after a failure), it never raises to
\* its caller whatever the request's outcome (timeout, connection error,
\* HTTP error status, malformed body), and it ends either Completed with the
\* trimmed text or Unavailable with no text.
C15_SingleAttemptNoRaise ==
    /\ [](/\ talk_hist.llm_requests <= 1
          /\ req.llm \in {"Completed", "Unavailable"} =>
               /\ talk_hist.llm_requests = 1
               /\ req.llm = "Unavailable" <=>
                     talk_hist.llm_outcome \in
                        {"timeout", "connection_error", "http_error", "malformed_body"}
               /\ req.llm = "Unavailable" <=> req.coaching_response = None
               /\ req.pc = "respond" => ~talk_hist.raised)
    /\ [][req.llm' # req.llm =>
            \/ <<req.llm, req.llm'>> \in GeneratorSteps
            \/ req' = ReqIdle]_vars

\* a request that timed out has made the call end Unavailable, after one
\* request, and the caller goes on to its fallback branch
C15_Witness ==
    /\ req.pc = "respond"
    /\ req.llm = "Unavailable"
    /\ talk_hist.llm_outcome = "timeout"
    /\ talk_hist.llm_requests = 1
    /\ req.coaching_response = None

\* C16: the process-wide handles are initialize-once.  Over any sequence of
\* get_db and get_embedding_model calls within one process, across any
\* number of requests, each handle is constructed at most once successfully,
\* every call after a successful construction returns that same handle
\* without constructing again, and no operation resets a handle to
\* uninitialized.
C16_InitializeOnce ==
    /\ [](/\ handle_hist.db <= 1
          /\ handle_hist.model <= 1
          /\ db_handle # None <=> handle_hist.db = 1
          /\ model_handle # None <=> handle_hist.model = 1)
    /\ [][/\ db_handle # None =>
               (db_handle' = db_handle /\ handle_hist'.db = handle_hist.db)
          /\ model_handle # None =>
               (model_handle' = model_handle
                  /\ handle_hist'.model = handle_hist.model)]_vars

\* a later request's retrieval has been served by the handles an earlier
\* request constructed
C16_Witness ==
    /\ talk_hist.retrieval
    /\ talk_hist.handles_reused
    /\ handle_hist.db = 1
    /\ handle_hist.model = 1
====
